---------------------------- MODULE Spec2Model ----------------------------
(***************************************************************************)
(* Model of the remedies journal (src/app.py): the date/time normalisers,  *)
(* the read-modify-write cycle of the route handlers, and the remote       *)
(* document store behind read_data / write_data / upload_with_retry.       *)
(*                                                                         *)
(* Strings of the program are sequences of one-character strings, so that  *)
(* the regular expressions of the parsers can be modelled position by      *)
(* position.                                                               *)
(***************************************************************************)
EXTENDS Naturals, Sequences, FiniteSets, TLC

(***************************************************************************)
(* Bounds of the model.                                                    *)
(***************************************************************************)
\* records a journal may hold (add is not offered beyond it)
MaxRecords == 2
\* events a record may hold (add_event is not offered beyond it)
MaxEvents == 2
\* highest reading of the wall clock
MaxClock == 1
\* write_data calls of a behaviour
MaxWrites == 4

(***************************************************************************)
(* Characters.                                                             *)
(***************************************************************************)
AsciiDigits == {"0", "1", "2", "3", "4", "5", "6", "7", "8", "9"}

\* a decimal digit outside ASCII (ARABIC-INDIC DIGIT THREE), matched by \d
UnicodeDigits == {"U+0663"}

\* str.strip() with no argument removes whitespace
Whitespace == {" ", "\t", "\n"}

\* \d of a str pattern: any Unicode decimal digit
IsDigit(c) == c \in AsciiDigits \cup UnicodeDigits

\* [0-9]
Is09(c) == c \in AsciiDigits

\* [0-1]
Is01(c) == c \in {"0", "1"}

\* [0-3]
Is03(c) == c \in {"0", "1", "2", "3"}

\* [0-5]
Is05(c) == c \in {"0", "1", "2", "3", "4", "5"}

\* code point order of the characters the canonical forms are made of
CharCode(c) ==
    CASE c = " " -> 32
      [] c = "-" -> 45
      [] c = "." -> 46
      [] c = "0" -> 48
      [] c = "1" -> 49
      [] c = "2" -> 50
      [] c = "3" -> 51
      [] c = "4" -> 52
      [] c = "5" -> 53
      [] c = "6" -> 54
      [] c = "7" -> 55
      [] c = "8" -> 56
      [] c = "9" -> 57
      [] c = ":" -> 58
      [] c = "U+0663" -> 1635
      [] OTHER -> 1000

RECURSIVE StripLeft(_)
StripLeft(s) ==
    IF s # <<>> /\ Head(s) \in Whitespace THEN StripLeft(Tail(s)) ELSE s

RECURSIVE StripRight(_)
StripRight(s) ==
    IF s # <<>> /\ s[Len(s)] \in Whitespace
    THEN StripRight(SubSeq(s, 1, Len(s) - 1))
    ELSE s

\* str.strip()
Strip(s) == StripRight(StripLeft(s))

\* every character of s at the positions from..to satisfies the class
AllDigits(s, from, to) == \A i \in from..to : IsDigit(s[i])

(***************************************************************************)
(* parse_date, parse_time, validate_time.  The empty string is the         *)
(* functions' only failure value: '' is returned for an empty input and    *)
(* for an input no pattern matches.                                        *)
(***************************************************************************)
\* ^(\d{2})\.(\d{2})\.(\d{4})$
MatchDateDots(s) ==
    /\ Len(s) = 10
    /\ AllDigits(s, 1, 2) /\ s[3] = "."
    /\ AllDigits(s, 4, 5) /\ s[6] = "."
    /\ AllDigits(s, 7, 10)

\* ^(\d{4})-(\d{2})-(\d{2})$
MatchDateIso(s) ==
    /\ Len(s) = 10
    /\ AllDigits(s, 1, 4) /\ s[5] = "-"
    /\ AllDigits(s, 6, 7) /\ s[8] = "-"
    /\ AllDigits(s, 9, 10)

\* ^(\d{2})(\d{2})(\d{4})$
MatchDateDigits(s) == Len(s) = 8 /\ AllDigits(s, 1, 8)

\* f"{year}-{month}-{day}"
IsoOf(year, month, day) == year \o <<"-">> \o month \o <<"-">> \o day

\* mutant of parse_date: an empty input gets a result of its own
parse_date_marking_empty(date_str) ==
    LET s == Strip(date_str) IN
    IF s = <<>> THEN <<"e", "m", "p", "t", "y">>
    ELSE IF MatchDateDots(s)
         THEN IsoOf(SubSeq(s, 7, 10), SubSeq(s, 4, 5), SubSeq(s, 1, 2))
    ELSE IF MatchDateIso(s) THEN s
    ELSE IF MatchDateDigits(s)
         THEN IsoOf(SubSeq(s, 5, 8), SubSeq(s, 3, 4), SubSeq(s, 1, 2))
    ELSE <<>>

parse_date(date_str) ==
    LET s == Strip(date_str) IN
    IF s = <<>> THEN <<>>
    ELSE IF MatchDateDots(s)
         THEN IsoOf(SubSeq(s, 7, 10), SubSeq(s, 4, 5), SubSeq(s, 1, 2))
    ELSE IF MatchDateIso(s) THEN s
    ELSE IF MatchDateDigits(s)
         THEN IsoOf(SubSeq(s, 5, 8), SubSeq(s, 3, 4), SubSeq(s, 1, 2))
    ELSE <<>>

\* ^([0-1]?[0-9]|2[0-3]):[0-5][0-9]$
MatchTimeColon(s) ==
    \/ /\ Len(s) = 4
       /\ Is09(s[1]) /\ s[2] = ":" /\ Is05(s[3]) /\ Is09(s[4])
    \/ /\ Len(s) = 5
       /\ \/ Is01(s[1]) /\ Is09(s[2])
          \/ s[1] = "2" /\ Is03(s[2])
       /\ s[3] = ":" /\ Is05(s[4]) /\ Is09(s[5])

\* ^([0-1][0-9]|2[0-3])([0-5][0-9])$
MatchTimeDigits(s) ==
    /\ Len(s) = 4
    /\ \/ Is01(s[1]) /\ Is09(s[2])
       \/ s[1] = "2" /\ Is03(s[2])
    /\ Is05(s[3]) /\ Is09(s[4])

\* mutant of PadHour: the hour is returned as it was typed
PadHourNot(h) == h

\* f"{int(parts[0]):02d}": the hour of a matched H or HH, as two digits
PadHour(h) == IF Len(h) = 1 THEN <<"0">> \o h ELSE h

parse_time(time_str) ==
    LET s == Strip(time_str) IN
    IF s = <<>> THEN <<>>
    ELSE IF MatchTimeColon(s)
         THEN PadHour(SubSeq(s, 1, Len(s) - 3)) \o SubSeq(s, Len(s) - 2, Len(s))
    ELSE IF MatchTimeDigits(s)
         THEN SubSeq(s, 1, 2) \o <<":">> \o SubSeq(s, 3, 4)
    ELSE <<>>

\* ^([0-1][0-9]|2[0-3]):[0-5][0-9]$
\* ($ also matches before one final line break)
validate_time(s) ==
    /\ \/ Len(s) = 5
       \/ Len(s) = 6 /\ s[6] = "\n"
    /\ \/ Is01(s[1]) /\ Is09(s[2])
       \/ s[1] = "2" /\ Is03(s[2])
    /\ s[3] = ":" /\ Is05(s[4]) /\ Is09(s[5])

(***************************************************************************)
(* The journal document.  A Journal is a sequence of records               *)
(*   [id, date_time, remedy, potency, events]                              *)
(* and an event is [date, time, description].  json.dumps writes it as a   *)
(* sequence of tokens (brackets, keys and quoted strings); json.loads      *)
(* reads such a sequence back and raises on any other one.  White space,   *)
(* commas and colons of the text are not modelled.                         *)
(***************************************************************************)
Tok(k, s) == [k |-> k, s |-> s]

Punct(k) == Tok(k, <<>>)

Key(name) == Tok("key", <<name>>)

Str(s) == Tok("str", s)

DumpEvent(e) ==
    << Punct("{"),
       Key("date"), Str(e.date),
       Key("time"), Str(e.time),
       Key("description"), Str(e.description),
       Punct("}") >>

RECURSIVE DumpEvents(_)
DumpEvents(es) ==
    IF es = <<>> THEN <<>> ELSE DumpEvent(Head(es)) \o DumpEvents(Tail(es))

DumpRecord(r) ==
    << Punct("{"),
       Key("id"), Str(r.id),
       Key("date-time"), Str(r.date_time),
       Key("remedy"), Str(r.remedy),
       Key("potency"), Str(r.potency),
       Key("events"), Punct("[") >>
    \o DumpEvents(r.events)
    \o << Punct("]"), Punct("}") >>

RECURSIVE DumpRecords(_)
DumpRecords(rs) ==
    IF rs = <<>> THEN <<>> ELSE DumpRecord(Head(rs)) \o DumpRecords(Tail(rs))

\* mutant of json_dumps: the closing bracket of the array is not written
json_dumps_unclosed(data) == <<Punct("[")>> \o DumpRecords(data)

\* json.dumps(data, ensure_ascii=False, indent=2)
json_dumps(data) == <<Punct("[")>> \o DumpRecords(data) \o <<Punct("]")>>

ParseFail == [ok |-> FALSE, val |-> <<>>, pos |-> 0]

IsTok(doc, i, k) == i <= Len(doc) /\ doc[i].k = k

IsKey(doc, i, name) == IsTok(doc, i, "key") /\ doc[i].s = <<name>>

\* the event object that starts at token i
EventAt(doc, i) ==
    /\ IsTok(doc, i, "{")
    /\ IsKey(doc, i + 1, "date") /\ IsTok(doc, i + 2, "str")
    /\ IsKey(doc, i + 3, "time") /\ IsTok(doc, i + 4, "str")
    /\ IsKey(doc, i + 5, "description") /\ IsTok(doc, i + 6, "str")
    /\ IsTok(doc, i + 7, "}")

\* the events of an array whose "[" is behind position i, up to its "]"
RECURSIVE LoadEvents(_, _, _)
LoadEvents(doc, i, acc) ==
    IF IsTok(doc, i, "]") THEN [ok |-> TRUE, val |-> acc, pos |-> i + 1]
    ELSE IF EventAt(doc, i)
         THEN LoadEvents(doc, i + 8,
                  Append(acc, [date |-> doc[i + 2].s,
                               time |-> doc[i + 4].s,
                               description |-> doc[i + 6].s]))
    ELSE ParseFail

\* the head of a record object, up to the "[" of its events
RecordHeadAt(doc, i) ==
    /\ IsTok(doc, i, "{")
    /\ IsKey(doc, i + 1, "id") /\ IsTok(doc, i + 2, "str")
    /\ IsKey(doc, i + 3, "date-time") /\ IsTok(doc, i + 4, "str")
    /\ IsKey(doc, i + 5, "remedy") /\ IsTok(doc, i + 6, "str")
    /\ IsKey(doc, i + 7, "potency") /\ IsTok(doc, i + 8, "str")
    /\ IsKey(doc, i + 9, "events") /\ IsTok(doc, i + 10, "[")

RECURSIVE LoadRecords(_, _, _)
LoadRecords(doc, i, acc) ==
    IF IsTok(doc, i, "]") THEN [ok |-> TRUE, val |-> acc, pos |-> i + 1]
    ELSE IF RecordHeadAt(doc, i)
         THEN LET es == LoadEvents(doc, i + 11, <<>>) IN
              IF es.ok /\ IsTok(doc, es.pos, "}")
              THEN LoadRecords(doc, es.pos + 1,
                       Append(acc, [id |-> doc[i + 2].s,
                                    date_time |-> doc[i + 4].s,
                                    remedy |-> doc[i + 6].s,
                                    potency |-> doc[i + 8].s,
                                    events |-> es.val]))
              ELSE ParseFail
    ELSE ParseFail

\* json.loads(json_str): ok = FALSE stands for the exception it raises
json_loads(doc) ==
    IF IsTok(doc, 1, "[")
    THEN LET rs == LoadRecords(doc, 2, <<>>) IN
         IF rs.ok /\ rs.pos = Len(doc) + 1 THEN rs ELSE ParseFail
    ELSE ParseFail

(***************************************************************************)
(* State.                                                                  *)
(***************************************************************************)
VARIABLES
    token,       \* YANDEX_TOKEN is set (read once, at start)
    remote,      \* the object at REMOTE_PATH: [exists, body]
    localFile,   \* the file at LOCAL_FALLBACK
    now,         \* last reading of the wall clock
    pc,          \* position of the request being handled
    req,         \* the request: route, method, url parameters and form
    new_record,  \* add: the record built before read_data, <<>> or <<r>>
    records,     \* what read_data returned to the handler
    read_how,    \* which way read_data returned
    read_o,      \* how the backend answered the calls of read_data
    data,        \* the argument of write_data
    attempt,     \* loop variable of upload_with_retry
    uploads,     \* y.upload calls issued by the running write_data
    ret,         \* what write_data returned: "none", "True", "False"
    result,      \* the handler's answer (flash message or page)
    view,        \* index: the records handed to the template
    exc,         \* an exception left read_data or write_data
    remote0,     \* the remote object when the request arrived
    wrote,       \* write_data was called by the request
    writes,      \* write_data calls so far
    lastWrite,   \* the journal of the last write_data that returned True,
                 \* valid until write_data is called again
    calls,       \* the backend calls of the running write_data and how
                 \* each was answered
    arg_str,     \* the string a normaliser is called with on its own
    out,         \* what the normaliser returned
    threads      \* the requests the server's threads handle side by side:
                 \* per thread, the locals of its handler

vars == << token, remote, localFile, now, pc, req, new_record, records,
           read_how, read_o, data, attempt, uploads, ret, result, view, exc,
           remote0, wrote, writes, lastWrite, calls, arg_str, out,
           threads >>

\* upload_with_retry(y, buf, remote_path, max_retries=3)
max_retries == 3

Absent == [exists |-> FALSE, body |-> <<>>]

Present(doc) == [exists |-> TRUE, body |-> doc]

\* the journal the remote object holds (no object: no records)
Stored(r) == IF r.exists THEN json_loads(r.body).val ELSE <<>>

NoReq ==
    [op |-> "none", method |-> "", record_id |-> <<>>,
     date_raw |-> <<>>, time_raw |-> <<>>, remedy |-> <<>>,
     potency |-> <<>>, description |-> <<>>, event_index |-> 0]

NoLastWrite == [valid |-> FALSE, j |-> <<>>]

\* no normaliser has been called
NoOut == [fn |-> "none", val |-> <<>>, valid |-> "none"]

(***************************************************************************)
(* Inputs: the forms and url parameters requests are drawn from.           *)
(***************************************************************************)
DateDots == <<"0", "1", ".", "0", "3", ".", "2", "0", "2", "4">>

DateDigits == <<"0", "2", "0", "3", "2", "0", "2", "4">>

DateBad == <<"2", "0", "2", "4", "-", "1", "-", "1", "5">>

\* a date whose month is written with a digit outside ASCII
DateArabic == <<"0", "1", ".", "0", "U+0663", ".", "2", "0", "2", "4">>

Blank == <<" ">>

TimeDigits == <<"0", "7", "3", "0">>

TimeBad == <<"9", ":", "5">>

Sulphur == <<"S", "u", "l">>

Arnica == <<"A", "r", "n">>

RecordForm(d, t, r, p) == [date |-> d, time |-> t, remedy |-> r, potency |-> p]

\* forms of POST /add: two accepted ones, one per way of rejection, one with
\* the remedy left empty and one with a digit outside ASCII in the date
RecordForms ==
    { RecordForm(DateDots, <<>>, Sulphur, <<"2", "0", "0", "C">>),
      RecordForm(DateDigits, TimeDigits, Arnica, <<"3", "0", "C">>),
      RecordForm(DateBad, <<>>, Sulphur, <<>>),
      RecordForm(<<>>, TimeDigits, Sulphur, <<>>),
      RecordForm(DateDots, TimeBad, Sulphur, <<>>),
      RecordForm(DateDots, Blank, Sulphur, <<>>),
      RecordForm(DateDots, <<>>, <<>>, <<>>),
      RecordForm(DateArabic, <<>>, Arnica, <<>>) }

\* forms of POST /edit: the accepted ones, one with a malformed date and one
\* with a malformed time
EditForms ==
    { RecordForm(DateDots, <<>>, Sulphur, <<"2", "0", "0", "C">>),
      RecordForm(DateDigits, TimeDigits, Arnica, <<"3", "0", "C">>),
      RecordForm(DateDots, <<>>, <<>>, <<>>),
      RecordForm(DateBad, <<>>, Sulphur, <<>>),
      RecordForm(DateDots, TimeBad, Sulphur, <<>>) }

EventForm(d, t, x) == [date |-> d, time |-> t, description |-> x]

\* forms of /add_event: two accepted ones, and one per way of rejection
EventForms ==
    { EventForm(DateDigits, TimeDigits, <<"o", "k">>),
      EventForm(<<>>, <<>>, <<"x">>),
      EventForm(DateBad, <<>>, <<"x">>),
      EventForm(Blank, <<>>, <<"x">>),
      EventForm(<<>>, TimeBad, <<"x">>),
      EventForm(DateDots, TimeDigits, <<>>) }

\* the numbers the <event_index> segment of a url may spell
EventIndexes == (0 - 1)..MaxEvents

\* <int:event_index>: the converter of the route matches unsigned decimal
\* numbers only; a url with any other segment matches no route
IntConverter(idx) == idx >= 0

\* forms of POST /edit_event: an accepted one, one with a malformed date and
\* one without description
EventEditForms ==
    { EventForm(DateDots, <<>>, <<"e", "d">>),
      EventForm(DateBad, <<>>, <<"x">>),
      EventForm(DateDots, TimeDigits, <<>>) }

DigitChar(d) == <<"0", "1", "2", "3", "4", "5", "6", "7", "8", "9">>[d + 1]

\* strftime of the clock reading: zero-padded decimal digits
FormatId(n) == << DigitChar((n \div 10) % 10), DigitChar(n % 10) >>

\* the record ids a url may name
UrlIds == { FormatId(n) : n \in 0..MaxClock }

\* datetime.now(): the wall clock has advanced since the last reading, or not
ClockReadings == { r \in {now, now + 1} : r <= MaxClock }

(***************************************************************************)
(* The handlers' computations on the form and on the records read.         *)
(***************************************************************************)
\* mutant of DateRejected: the raw input is tested, not the parsed date
DateRejectedIfEmpty(date_raw) == date_raw = <<>>

\* add, edit: "if not date_iso"
DateRejected(date_raw) == parse_date(date_raw) = <<>>

\* add, edit: time_fixed, parsed only "if time_raw"
TimeFixed(time_raw) == IF time_raw # <<>> THEN parse_time(time_raw) ELSE <<>>

\* add, edit: "if time_raw: ... if not time_fixed"
TimeRejected(time_raw) == time_raw # <<>> /\ parse_time(time_raw) = <<>>

\* f"{date_iso} {time_fixed}" if time_fixed else date_iso
ComposeDateTime(date_iso, time_fixed) ==
    IF time_fixed # <<>> THEN date_iso \o <<" ">> \o time_fixed ELSE date_iso

FormDateTime(f) == ComposeDateTime(parse_date(f.date), TimeFixed(f.time))

\* add: new_record
NewRecord(id, f) ==
    [id |-> id, date_time |-> FormDateTime(f), remedy |-> f.remedy,
     potency |-> f.potency, events |-> <<>>]

\* next((r for r in records if r['id'] == record_id), None): the position of
\* the first record with the id, 0 for None
FindRecord(rs, id) ==
    IF \E i \in 1..Len(rs) : rs[i].id = id
    THEN CHOOSE i \in 1..Len(rs) :
             rs[i].id = id /\ \A j \in 1..(i - 1) : rs[j].id # id
    ELSE 0

\* mutant of EditRecords: the record found is replaced by a new one
EditRecordsLosingEvents(rs, id, f) ==
    [rs EXCEPT ![FindRecord(rs, id)] = NewRecord(id, f)]

\* edit: the three assignments to the record found
EditRecords(rs, id, f) ==
    [rs EXCEPT ![FindRecord(rs, id)] =
        [@ EXCEPT !.date_time = FormDateTime(f),
                  !.remedy = f.remedy,
                  !.potency = f.potency]]

KeepsRecord(r, id) == r.id # id

\* delete: [r for r in records if r['id'] != record_id]
DeleteRecords(rs, id) == SelectSeq(rs, LAMBDA r : KeepsRecord(r, id))

\* add_event, edit_event: parse_date(date_raw) if date_raw else ''
EventDateIso(date_raw) == IF date_raw # <<>> THEN parse_date(date_raw) ELSE <<>>

\* add_event, edit_event: "if date_raw and not date_iso"
EventDateRejected(date_raw) == date_raw # <<>> /\ EventDateIso(date_raw) = <<>>

\* add_event, edit_event: "if not description"
DescriptionRejected(description) == description = <<>>

\* add_event: new_event
NewEvent(f) ==
    [date |-> EventDateIso(f.date), time |-> TimeFixed(f.time),
     description |-> f.description]

\* mutant of AppendEvent: the new event is put first
PrependEvent(rs, id, ev) ==
    [rs EXCEPT ![FindRecord(rs, id)].events = <<ev>> \o @]

\* add_event: record['events'].append(new_event)
AppendEvent(rs, id, ev) ==
    [rs EXCEPT ![FindRecord(rs, id)].events = Append(@, ev)]

\* mutant of IndexBeyond: the bound is off by one
IndexBeyondOffByOne(events, event_index) == event_index > Len(events)

\* edit_event: event_index >= len(record['events'])
IndexBeyond(events, event_index) == event_index >= Len(events)

\* delete_event: 0 <= event_index < len(record['events'])
IndexWithin(events, event_index) ==
    0 <= event_index /\ event_index < Len(events)

\* the position events[event_index] names: a negative index counts from the
\* end; a position outside 1..Len(events) is an IndexError
ListPos(events, event_index) ==
    IF event_index >= 0 THEN event_index + 1
    ELSE Len(events) + event_index + 1

\* events[event_index] raises IndexError
IndexError(events, event_index) ==
    ListPos(events, event_index) \notin 1..Len(events)

\* edit_event: the three assignments to record['events'][event_index]
EditEventAt(rs, id, event_index, f) ==
    [rs EXCEPT ![FindRecord(rs, id)].events =
        [@ EXCEPT ![ListPos(@, event_index)] =
            [@ EXCEPT !.date = EventDateIso(f.date),
                      !.time = TimeFixed(f.time),
                      !.description = f.description]]]

\* mutant of RemoveAt: the event behind the one named is removed
RemoveBehind(events, pos) ==
    SubSeq(events, 1, pos) \o SubSeq(events, pos + 2, Len(events))

\* del events[pos - 1]
RemoveAt(events, pos) ==
    SubSeq(events, 1, pos - 1) \o SubSeq(events, pos + 1, Len(events))

\* delete_event: del record['events'][event_index]
DeleteEventAt(rs, id, event_index) ==
    [rs EXCEPT ![FindRecord(rs, id)].events =
        RemoveAt(@, ListPos(@, event_index))]

\* s < t in the order of str: by code point, a proper prefix first
RECURSIVE StrLess(_, _)
StrLess(s, t) ==
    IF t = <<>> THEN FALSE
    ELSE IF s = <<>> THEN TRUE
    ELSE IF Head(s) = Head(t) THEN StrLess(Tail(s), Tail(t))
    ELSE CharCode(Head(s)) < CharCode(Head(t))

\* mutant of InsertDesc: r is put before the records of an equal key
RECURSIVE InsertDescBeforeEqual(_, _)
InsertDescBeforeEqual(sorted, r) ==
    IF sorted = <<>> THEN <<r>>
    ELSE IF ~StrLess(r.date_time, Head(sorted).date_time)
         THEN <<r>> \o sorted
    ELSE <<Head(sorted)>> \o InsertDescBeforeEqual(Tail(sorted), r)

\* r put behind the records of the sorted list whose key is not below its own
RECURSIVE InsertDesc(_, _)
InsertDesc(sorted, r) ==
    IF sorted = <<>> THEN <<r>>
    ELSE IF StrLess(Head(sorted).date_time, r.date_time)
         THEN <<r>> \o sorted
    ELSE <<Head(sorted)>> \o InsertDesc(Tail(sorted), r)

RECURSIVE SortInto(_, _)
SortInto(sorted, rs) ==
    IF rs = <<>> THEN sorted
    ELSE SortInto(InsertDesc(sorted, Head(rs)), Tail(rs))

\* index: records.sort(key=date-time, reverse=True), a stable sort
SortDesc(rs) == SortInto(<<>>, rs)

(***************************************************************************)
(* read_data.  The backend answers each call in one of the ways o names:   *)
(*   "ok"              exists and download succeed                          *)
(*   "exists_error"    y.exists raises                                      *)
(*   "download_error"  y.download raises                                    *)
(*   "garbled"         the bytes downloaded are no JSON document            *)
(***************************************************************************)
ReadReturn(v, how) == [val |-> v, how |-> how, raised |-> FALSE]

\* bytes json.loads cannot read: the document cut short
Garble(doc) == SubSeq(doc, 1, Len(doc) - 1)

\* the ways the backend can answer the calls read_data makes in this state
ReadOutcomes ==
    IF ~token THEN {"ok"}
    ELSE IF ~remote.exists THEN {"ok", "exists_error"}
    ELSE {"ok", "exists_error", "download_error", "garbled"}

\* mutant of read_data: no try/except around the backend calls and json.loads
read_data_uncaught(o) ==
    IF ~token THEN ReadReturn(<<>>, "no_token")
    ELSE IF o = "exists_error"
         THEN [val |-> <<>>, how |-> "exists_error", raised |-> TRUE]
    ELSE IF ~remote.exists THEN ReadReturn(<<>>, "absent")
    ELSE IF o = "download_error"
         THEN [val |-> <<>>, how |-> "download_error", raised |-> TRUE]
    ELSE LET bytes == IF o = "garbled" THEN Garble(remote.body) ELSE remote.body
             parsed == json_loads(bytes)
         IN  IF parsed.ok THEN ReadReturn(parsed.val, "ok")
             ELSE [val |-> <<>>, how |-> "malformed", raised |-> TRUE]

read_data(o) ==
    IF ~token THEN ReadReturn(<<>>, "no_token")
    ELSE IF o = "exists_error" THEN ReadReturn(<<>>, "exists_error")
    ELSE IF ~remote.exists THEN ReadReturn(<<>>, "absent")
    ELSE IF o = "download_error" THEN ReadReturn(<<>>, "download_error")
    ELSE LET bytes == IF o = "garbled" THEN Garble(remote.body) ELSE remote.body
             parsed == json_loads(bytes)
         IN  IF parsed.ok THEN ReadReturn(parsed.val, "ok")
             ELSE ReadReturn(<<>>, "malformed")

(***************************************************************************)
(* Requests.  A request is handled in steps: the handler's code up to      *)
(* read_data, read_data, the handler's code up to write_data, then one     *)
(* step per backend call of write_data / upload_with_retry.                *)
(***************************************************************************)
\* app.run(debug=True, port=5009): the development server handles each
\* request in a thread of its own; two of them are followed side by side
Threads == {1, 2}

\* the locals of a thread that handles no request
NoThread ==
    [pc |-> "idle", new_record |-> <<>>, records |-> <<>>,
     read_how |-> "none", seen |-> Absent, early |-> FALSE, data |-> <<>>,
     attempt |-> 0, called |-> FALSE, ret |-> "none", result |-> "none"]

\* no request is being handled and nothing is stored
HandlersIdle ==
    /\ token \in BOOLEAN
    /\ remote = Absent
    /\ localFile = Absent
    /\ now = 0
    /\ pc = "idle"
    /\ req = NoReq
    /\ new_record = <<>>
    /\ records = <<>>
    /\ read_how = "none"
    /\ read_o = "none"
    /\ data = <<>>
    /\ attempt = 0
    /\ uploads = 0
    /\ ret = "none"
    /\ result = "none"
    /\ view = <<>>
    /\ exc = FALSE
    /\ remote0 = Absent
    /\ wrote = FALSE
    /\ writes = 0
    /\ lastWrite = NoLastWrite
    /\ calls = <<>>
    /\ threads = [t \in Threads |-> NoThread]

Init ==
    /\ HandlersIdle
    /\ arg_str = <<>>
    /\ out = NoOut

\* a request arrives and its handler starts
Arrive(r) ==
    /\ pc = "idle"
    /\ req' = r
    /\ remote0' = remote

\* the handler returns without calling write_data
Answer(res) ==
    /\ result' = res
    /\ pc' = "done"

\* mutant of TokenMissing: the credential is never checked
TokenMissingNever == FALSE

\* write_data: "if not YANDEX_TOKEN"
TokenMissing == ~token

\* mutant of EmptyBranch: an empty journal is uploaded like any other
EmptyBranchNever(d) == FALSE

\* write_data: "if not data"
EmptyBranch(d) == d = <<>>

\* write_data(d) returns r to the handler, which flashes and redirects
WriteReturns(r, d) ==
    /\ ret' = (IF r THEN "True" ELSE "False")
    /\ result' = (IF r THEN "success" ELSE "save_error")
    /\ pc' = "done"
    /\ lastWrite' = (IF r THEN [valid |-> TRUE, j |-> d] ELSE NoLastWrite)

\* the handler calls write_data(d): the code up to the first backend call
\* on the object (ensure_remote_dir touches only the parent directory and
\* swallows its errors)
CallWriteData(d) ==
    /\ data' = d
    /\ wrote' = TRUE
    /\ writes' = writes + 1
    /\ attempt' = 0
    /\ calls' = <<>>
    /\ IF TokenMissing THEN WriteReturns(FALSE, d)
       ELSE /\ pc' = (IF EmptyBranch(d) THEN "wd_exists" ELSE "upload")
            /\ lastWrite' = NoLastWrite
            /\ UNCHANGED << ret, result >>

\* GET /add
AddGet ==
    /\ Arrive([NoReq EXCEPT !.op = "add", !.method = "GET"])
    /\ Answer("rendered")
    /\ UNCHANGED << arg_str, out, threads, calls,
                    token, remote, localFile, now, new_record, records,
                    read_how, read_o, data, attempt, uploads, ret, view, exc,
                    wrote, writes, lastWrite >>

\* POST /add, up to read_data
AddPost(f) ==
    /\ Arrive([NoReq EXCEPT !.op = "add", !.method = "POST",
                  !.date_raw = f.date, !.time_raw = f.time,
                  !.remedy = f.remedy, !.potency = f.potency])
    /\ IF DateRejected(f.date)
       THEN Answer("bad_date") /\ UNCHANGED << now, new_record >>
       ELSE IF TimeRejected(f.time)
       THEN Answer("bad_time") /\ UNCHANGED << now, new_record >>
       ELSE /\ writes < MaxWrites
            /\ Len(Stored(remote)) < MaxRecords
            /\ \E r \in ClockReadings :
                   /\ now' = r
                   /\ new_record' = << NewRecord(FormatId(r), f) >>
            /\ pc' = "read"
            /\ UNCHANGED result
    /\ UNCHANGED << arg_str, out, threads, calls,
                    token, remote, localFile, records, read_how, read_o, data,
                    attempt, uploads, ret, view, exc, wrote, writes,
                    lastWrite >>

\* a request whose handler starts with read_data
ArriveToRead(r) ==
    /\ Arrive(r)
    /\ pc' = "read"
    /\ UNCHANGED << arg_str, out, threads, calls,
                    token, remote, localFile, now, new_record, records,
                    read_how, read_o, data, attempt, uploads, ret, result, view,
                    exc, wrote, writes, lastWrite >>

\* GET /
IndexGet == ArriveToRead([NoReq EXCEPT !.op = "index", !.method = "GET"])

\* GET /edit/<record_id>
EditGet(id) ==
    ArriveToRead([NoReq EXCEPT !.op = "edit", !.method = "GET",
                     !.record_id = id])

\* POST /edit/<record_id>
EditPost(id, f) ==
    /\ writes < MaxWrites
    /\ ArriveToRead([NoReq EXCEPT !.op = "edit", !.method = "POST",
                     !.record_id = id,
                     !.date_raw = f.date, !.time_raw = f.time,
                     !.remedy = f.remedy, !.potency = f.potency])

\* POST /delete/<record_id>
DeletePost(id) ==
    /\ writes < MaxWrites
    /\ ArriveToRead([NoReq EXCEPT !.op = "delete", !.method = "POST",
                     !.record_id = id])

\* POST /add_event/<record_id>
AddEventPost(id, f) ==
    /\ pc = "idle"
    /\ writes < MaxWrites
    /\ LET rs == Stored(remote) IN
       \A i \in 1..Len(rs) : rs[i].id = id => Len(rs[i].events) < MaxEvents
    /\ ArriveToRead([NoReq EXCEPT !.op = "add_event", !.method = "POST",
                        !.record_id = id,
                        !.date_raw = f.date, !.time_raw = f.time,
                        !.description = f.description])

\* a url of edit_event or delete_event whose index segment the converter
\* does not match: no handler runs, the answer is 404
EventRouteMiss(op, id, idx) ==
    /\ ~IntConverter(idx)
    /\ Arrive([NoReq EXCEPT !.op = op, !.method = "POST", !.record_id = id,
                            !.event_index = idx])
    /\ Answer("no_route")
    /\ UNCHANGED << arg_str, out, threads, calls,
                    token, remote, localFile, now, new_record, records,
                    read_how, read_o, data, attempt, uploads, ret, view, exc,
                    wrote, writes, lastWrite >>

\* GET /edit_event/<record_id>/<int:event_index>
EditEventGet(id, idx) ==
    /\ IntConverter(idx)
    /\ ArriveToRead([NoReq EXCEPT !.op = "edit_event", !.method = "GET",
                        !.record_id = id, !.event_index = idx])

\* POST /edit_event/<record_id>/<int:event_index>
EditEventPost(id, idx, f) ==
    /\ IntConverter(idx)
    /\ writes < MaxWrites
    /\ ArriveToRead([NoReq EXCEPT !.op = "edit_event", !.method = "POST",
                        !.record_id = id, !.event_index = idx,
                        !.date_raw = f.date, !.time_raw = f.time,
                        !.description = f.description])

\* POST /delete_event/<record_id>/<int:event_index>
DeleteEventPost(id, idx) ==
    /\ IntConverter(idx)
    /\ writes < MaxWrites
    /\ ArriveToRead([NoReq EXCEPT !.op = "delete_event", !.method = "POST",
                        !.record_id = id, !.event_index = idx])

\* records = read_data()
ReadData ==
    /\ pc = "read"
    /\ \E o \in ReadOutcomes :
           LET r == read_data(o) IN
           /\ records' = r.val
           /\ read_how' = r.how
           /\ read_o' = o
           /\ exc' = r.raised
           /\ IF r.raised THEN Answer("crash")
              ELSE pc' = "handle" /\ UNCHANGED result
    /\ UNCHANGED << arg_str, out, threads, calls,
                    token, remote, localFile, now, req, new_record, data,
                    attempt, uploads, ret, view, remote0, wrote, writes,
                    lastWrite >>

\* what no handler's code between read_data and write_data changes
HandleFrame ==
    UNCHANGED << arg_str, out, threads,
                 token, remote, localFile, now, req, new_record, records,
                 read_how, read_o, uploads, view, exc, remote0 >>

\* the handler returns between read_data and write_data
HandleAnswer(res) ==
    /\ Answer(res)
    /\ UNCHANGED << data, attempt, ret, wrote, writes, lastWrite, calls >>

\* add: records.append(new_record); write_data(records)
AddHandle ==
    /\ pc = "handle" /\ req.op = "add"
    /\ CallWriteData(records \o new_record)
    /\ HandleFrame

\* edit, behind read_data
EditHandle ==
    /\ pc = "handle" /\ req.op = "edit"
    /\ LET f == RecordForm(req.date_raw, req.time_raw, req.remedy, req.potency)
       IN  IF FindRecord(records, req.record_id) = 0
           THEN HandleAnswer("not_found")
           ELSE IF req.method = "GET" THEN HandleAnswer("rendered")
           ELSE IF DateRejected(f.date) THEN HandleAnswer("bad_date")
           ELSE IF TimeRejected(f.time) THEN HandleAnswer("bad_time")
           ELSE CallWriteData(EditRecords(records, req.record_id, f))
    /\ HandleFrame

\* delete, behind read_data
DeleteHandle ==
    /\ pc = "handle" /\ req.op = "delete"
    /\ CallWriteData(DeleteRecords(records, req.record_id))
    /\ HandleFrame

\* add_event, behind read_data
AddEventHandle ==
    /\ pc = "handle" /\ req.op = "add_event"
    /\ LET f == EventForm(req.date_raw, req.time_raw, req.description)
       IN  IF FindRecord(records, req.record_id) = 0
           THEN HandleAnswer("redirect")
           ELSE IF DescriptionRejected(f.description)
           THEN HandleAnswer("no_description")
           ELSE IF EventDateRejected(f.date) THEN HandleAnswer("bad_date")
           ELSE IF TimeRejected(f.time) THEN HandleAnswer("bad_time")
           ELSE CallWriteData(AppendEvent(records, req.record_id, NewEvent(f)))
    /\ HandleFrame

\* edit_event, behind read_data
EditEventHandle ==
    /\ pc = "handle" /\ req.op = "edit_event"
    /\ LET f == EventForm(req.date_raw, req.time_raw, req.description)
           k == FindRecord(records, req.record_id)
       IN  IF k = 0 THEN HandleAnswer("not_found")
           ELSE IF IndexBeyond(records[k].events, req.event_index)
           THEN HandleAnswer("not_found")
           ELSE IF IndexError(records[k].events, req.event_index)
           THEN HandleAnswer("crash")
           ELSE IF req.method = "GET" THEN HandleAnswer("rendered")
           ELSE IF DescriptionRejected(f.description)
           THEN HandleAnswer("no_description")
           ELSE IF EventDateRejected(f.date) THEN HandleAnswer("bad_date")
           ELSE IF TimeRejected(f.time) THEN HandleAnswer("bad_time")
           ELSE CallWriteData(EditEventAt(records, req.record_id,
                                          req.event_index, f))
    /\ HandleFrame

\* delete_event, behind read_data
DeleteEventHandle ==
    /\ pc = "handle" /\ req.op = "delete_event"
    /\ LET k == FindRecord(records, req.record_id)
       IN  IF k # 0 /\ IndexWithin(records[k].events, req.event_index)
           THEN CallWriteData(DeleteEventAt(records, req.record_id,
                                            req.event_index))
           ELSE HandleAnswer("not_found")
    /\ HandleFrame

\* index, behind read_data
IndexHandle ==
    /\ pc = "handle" /\ req.op = "index"
    /\ view' = SortDesc(records)
    /\ HandleAnswer("rendered")
    /\ UNCHANGED << arg_str, out, threads,
                    token, remote, localFile, now, req, new_record, records,
                    read_how, read_o, uploads, exc, remote0 >>

(***************************************************************************)
(* write_data and upload_with_retry, one step per backend call on the      *)
(* object.  A call that raises leaves the object as it was; any exception  *)
(* that leaves upload_with_retry is caught by write_data, which returns    *)
(* False.                                                                  *)
(***************************************************************************)
\* a backend call and its answer
Call(f, o) == [f |-> f, o |-> o]

\* what no step of write_data changes
WriteFrame ==
    UNCHANGED << arg_str, out, threads,
                 token, localFile, now, req, new_record, records, read_how,
                 read_o,
                 data, view, exc, remote0, wrote, writes >>

\* the object behind y.remove(REMOTE_PATH) answered with o
RemoveResult(o) == IF o = "ok" THEN Absent ELSE remote

\* the object behind y.upload(buf, REMOTE_PATH, ...) answered with o
UploadResult(o, buf) == IF o = "ok" THEN Present(buf) ELSE remote

\* the answers y.upload(buf, REMOTE_PATH) can give without overwrite=True:
\* an object in the way is a conflict
PlainUploadOutcomes ==
    IF remote.exists THEN {"conflict"} ELSE {"ok", "conflict", "error"}

\* write_data, empty data: y.exists(REMOTE_PATH)
WdExists ==
    /\ pc = "wd_exists"
    /\ \E o \in {"ok", "error"} :
           /\ calls' = Append(calls, Call("exists", o))
           /\ IF o = "error" THEN WriteReturns(FALSE, data)
              ELSE IF remote.exists
              THEN pc' = "wd_remove" /\ UNCHANGED << ret, result, lastWrite >>
              ELSE WriteReturns(TRUE, data)
    /\ UNCHANGED << remote, attempt, uploads >>
    /\ WriteFrame

\* write_data, empty data: y.remove(REMOTE_PATH)
WdRemove ==
    /\ pc = "wd_remove"
    /\ \E o \in {"ok", "error"} :
           /\ calls' = Append(calls, Call("remove", o))
           /\ remote' = RemoveResult(o)
           /\ WriteReturns(o = "ok", data)
    /\ UNCHANGED << attempt, uploads >>
    /\ WriteFrame

\* mutant of Upload: any exception of the upload is retried
UploadRetryingErrors ==
    /\ pc = "upload"
    /\ uploads' = uploads + 1
    /\ \E o \in {"ok", "conflict", "error"} :
           /\ calls' = Append(calls, Call("upload_overwrite", o))
           /\ remote' = UploadResult(o, json_dumps(data))
           /\ IF o = "ok" THEN WriteReturns(TRUE, data) /\ UNCHANGED attempt
              ELSE IF attempt = max_retries - 1
              THEN /\ pc' = "fb_exists"
                   /\ UNCHANGED << attempt, ret, result, lastWrite >>
              ELSE /\ attempt' = attempt + 1
                   /\ UNCHANGED << pc, ret, result, lastWrite >>
    /\ WriteFrame

\* upload_with_retry: y.upload(buf, remote_path, overwrite=True) of the loop
Upload ==
    /\ pc = "upload"
    /\ uploads' = uploads + 1
    /\ \E o \in {"ok", "conflict", "error"} :
           /\ calls' = Append(calls, Call("upload_overwrite", o))
           /\ remote' = UploadResult(o, json_dumps(data))
           /\ IF o = "ok" THEN WriteReturns(TRUE, data) /\ UNCHANGED attempt
              ELSE IF o = "error"
              THEN WriteReturns(FALSE, data) /\ UNCHANGED attempt
              ELSE IF attempt = max_retries - 1
              THEN /\ pc' = "fb_exists"
                   /\ UNCHANGED << attempt, ret, result, lastWrite >>
              ELSE /\ attempt' = attempt + 1
                   /\ UNCHANGED << pc, ret, result, lastWrite >>
    /\ WriteFrame

\* upload_with_retry, last conflict: y.exists(remote_path)
FbExists ==
    /\ pc = "fb_exists"
    /\ \E o \in {"ok", "error"} :
           /\ calls' = Append(calls, Call("exists", o))
           /\ IF o = "error" THEN WriteReturns(FALSE, data)
              ELSE /\ pc' = (IF remote.exists THEN "fb_remove"
                                             ELSE "fb_upload")
                   /\ UNCHANGED << ret, result, lastWrite >>
    /\ UNCHANGED << remote, attempt, uploads >>
    /\ WriteFrame

\* upload_with_retry, last conflict: y.remove(remote_path)
FbRemove ==
    /\ pc = "fb_remove"
    /\ \E o \in {"ok", "error"} :
           /\ calls' = Append(calls, Call("remove", o))
           /\ remote' = RemoveResult(o)
           /\ IF o = "ok"
              THEN pc' = "fb_upload" /\ UNCHANGED << ret, result, lastWrite >>
              ELSE WriteReturns(FALSE, data)
    /\ UNCHANGED << attempt, uploads >>
    /\ WriteFrame

\* upload_with_retry, last conflict: y.upload(buf, remote_path)
FbUpload ==
    /\ pc = "fb_upload"
    /\ uploads' = uploads + 1
    /\ \E o \in PlainUploadOutcomes :
           /\ calls' = Append(calls, Call("upload", o))
           /\ remote' = UploadResult(o, json_dumps(data))
           /\ WriteReturns(o = "ok", data)
    /\ UNCHANGED attempt
    /\ WriteFrame

\* the response is sent; the handler's locals are gone
Finish ==
    /\ pc = "done"
    /\ pc' = "idle"
    /\ req' = NoReq
    /\ new_record' = <<>>
    /\ records' = <<>>
    /\ read_how' = "none"
    /\ read_o' = "none"
    /\ data' = <<>>
    /\ attempt' = 0
    /\ uploads' = 0
    /\ ret' = "none"
    /\ result' = "none"
    /\ view' = <<>>
    /\ wrote' = FALSE
    /\ remote0' = remote
    /\ calls' = <<>>
    /\ UNCHANGED << arg_str, out, threads,
                    token, remote, localFile, now, exc, writes, lastWrite >>

Next ==
    \/ AddGet
    \/ \E f \in RecordForms : AddPost(f)
    \/ IndexGet
    \/ \E id \in UrlIds : EditGet(id)
    \/ \E id \in UrlIds, f \in EditForms : EditPost(id, f)
    \/ \E id \in UrlIds : DeletePost(id)
    \/ \E id \in UrlIds, f \in EventForms : AddEventPost(id, f)
    \/ \E op \in {"edit_event", "delete_event"}, id \in UrlIds,
          idx \in EventIndexes : EventRouteMiss(op, id, idx)
    \/ \E id \in UrlIds, idx \in EventIndexes : EditEventGet(id, idx)
    \/ \E id \in UrlIds, idx \in EventIndexes, f \in EventEditForms :
           EditEventPost(id, idx, f)
    \/ \E id \in UrlIds, idx \in EventIndexes : DeleteEventPost(id, idx)
    \/ ReadData
    \/ AddHandle
    \/ EditHandle
    \/ DeleteHandle
    \/ AddEventHandle
    \/ EditEventHandle
    \/ DeleteEventHandle
    \/ IndexHandle
    \/ WdExists
    \/ WdRemove
    \/ Upload
    \/ FbExists
    \/ FbRemove
    \/ FbUpload
    \/ Finish

Spec == Init /\ [][Next]_vars

\* the backend calls of write_data: each returns or raises
WriteSteps ==
    WdExists \/ WdRemove \/ Upload \/ FbExists \/ FbRemove \/ FbUpload

\* the handlers with the backend answering every call of a write
FairSpec == Spec /\ WF_vars(WriteSteps)

(***************************************************************************)
(* The normalisers on their own: parse_date, parse_time and validate_time  *)
(* applied to strings put together from groups of characters, separators   *)
(* and surrounding whitespace.                                             *)
(***************************************************************************)
handlerVars ==
    << token, remote, localFile, now, pc, req, new_record, records,
       read_how, read_o, data, attempt, uploads, ret, result, view, exc,
       remote0, wrote, writes, lastWrite, calls >>

\* the groups of characters the inputs are put together from
Groups ==
    { <<>>, <<"9">>, <<"5">>, <<"0", "1">>, <<"1", "5">>, <<"3", "2">>,
      <<"2", "3">>, <<"2", "4">>, <<"0", "5">>, <<"6", "0">>,
      <<"0", "U+0663">>, <<"a", "b">>, <<"2", "0", "2", "4">> }

Separators == { <<>>, <<".">>, <<"-">>, <<":">> }

PadsLeft == { <<>>, <<" ">> }

PadsRight == { <<>>, <<"\n">> }

\* the strings the normalisers are called with
ParseInputs ==
    { l \o g1 \o s1 \o g2 \o s2 \o g3 \o r :
          l \in PadsLeft, g1 \in Groups, s1 \in Separators, g2 \in Groups,
          s2 \in Separators, g3 \in Groups, r \in PadsRight }

ParseInit ==
    /\ HandlersIdle
    /\ ~token
    /\ arg_str \in ParseInputs
    /\ out = NoOut

\* parse_date(arg_str)
CallParseDate ==
    /\ out.fn = "none"
    /\ out' = [fn |-> "parse_date", val |-> parse_date(arg_str),
               valid |-> "none"]
    /\ UNCHANGED << handlerVars, arg_str, threads >>

\* parse_time(arg_str)
CallParseTime ==
    /\ out.fn = "none"
    /\ out' = [fn |-> "parse_time", val |-> parse_time(arg_str),
               valid |-> "none"]
    /\ UNCHANGED << handlerVars, arg_str, threads >>

\* validate_time of the time parse_time returned
CallValidateTime ==
    /\ out.fn = "parse_time" /\ out.val # <<>> /\ out.valid = "none"
    /\ out' = [out EXCEPT
                  !.valid = IF validate_time(out.val) THEN "True" ELSE "False"]
    /\ UNCHANGED << handlerVars, arg_str, threads >>

ParseNext ==
    \/ CallParseDate
    \/ CallParseTime
    \/ CallValidateTime

ParseSpec == ParseInit /\ [][ParseNext]_vars

(***************************************************************************)
(* Two POST /add requests handled side by side.  Each thread runs the     *)
(* handler in the steps of a single request: the code up to read_data,    *)
(* read_data, the code up to the first backend call of write_data, then   *)
(* one step per backend call.  The threads share the remote object and    *)
(* the clock; nothing in the handlers makes one wait for the other.       *)
(***************************************************************************)
\* forms of the two requests: the accepted ones and one that is rejected
RaceForms ==
    { RecordForm(DateDots, <<>>, Sulphur, <<"2", "0", "0", "C">>),
      RecordForm(DateDigits, TimeDigits, Arnica, <<"3", "0", "C">>),
      RecordForm(DateBad, <<>>, Sulphur, <<>>) }

\* what is stored when the two requests arrive: nothing, or the journal an
\* earlier add has written
RaceJournals ==
    { Absent,
      Present(json_dumps(<< NewRecord(FormatId(0),
                                      RecordForm(DateDots, <<>>, Arnica,
                                                 <<"6", "C">>)) >>)) }

RaceInit ==
    /\ token \in BOOLEAN
    /\ remote \in RaceJournals
    /\ localFile = Absent
    /\ now = 0
    /\ pc = "idle"
    /\ req = NoReq
    /\ new_record = <<>>
    /\ records = <<>>
    /\ read_how = "none"
    /\ read_o = "none"
    /\ data = <<>>
    /\ attempt = 0
    /\ uploads = 0
    /\ ret = "none"
    /\ result = "none"
    /\ view = <<>>
    /\ exc = FALSE
    /\ remote0 = remote
    /\ wrote = FALSE
    /\ writes = 0
    /\ lastWrite = NoLastWrite
    /\ calls = <<>>
    /\ arg_str = <<>>
    /\ out = NoOut
    /\ threads = [t \in Threads |-> NoThread]

\* what the steps of the two threads leave alone
RaceFrame ==
    UNCHANGED << token, localFile, pc, req, new_record, records, read_how,
                 read_o, data, attempt, uploads, ret, result, view, exc,
                 remote0, wrote, writes, lastWrite, calls, arg_str, out >>

\* thread t goes on with locals th
Goes(t, th) == threads' = [threads EXCEPT ![t] = th]

\* the handler of a thread returns res without calling write_data
ThreadAnswers(th, res) == [th EXCEPT !.result = res, !.pc = "done"]

\* write_data returns r to the handler of a thread, which flashes and
\* redirects
ThreadReturns(th, r) ==
    [th EXCEPT !.ret = IF r THEN "True" ELSE "False",
               !.result = IF r THEN "success" ELSE "save_error",
               !.pc = "done"]

\* a thread has issued a backend call of write_data
Calling(th) == [th EXCEPT !.called = TRUE]

\* POST /add in thread t, up to read_data
RaceAddPost(t, f) ==
    /\ threads[t].pc = "idle"
    /\ IF DateRejected(f.date)
       THEN Goes(t, ThreadAnswers(threads[t], "bad_date")) /\ UNCHANGED now
       ELSE IF TimeRejected(f.time)
       THEN Goes(t, ThreadAnswers(threads[t], "bad_time")) /\ UNCHANGED now
       ELSE \E r \in ClockReadings :
                /\ now' = r
                /\ Goes(t, [threads[t] EXCEPT
                               !.new_record = << NewRecord(FormatId(r), f) >>,
                               !.pc = "read"])
    /\ UNCHANGED remote
    /\ RaceFrame

\* mutant of RaceReadData: the read-modify-write of a handler is a critical
\* section, a thread reads only when no other thread is inside it
RaceReadDataLocked(t) ==
    /\ \A u \in Threads \ {t} : threads[u].pc \in {"idle", "read", "done"}
    /\ threads[t].pc = "read"
    /\ \E o \in ReadOutcomes :
           LET r == read_data(o)
               th == [threads[t] EXCEPT
                         !.records = r.val,
                         !.read_how = r.how,
                         !.seen = remote,
                         !.early = \A u \in Threads : ~threads[u].called]
           IN  Goes(t, [th EXCEPT !.pc = "handle"])
    /\ UNCHANGED << remote, now >>
    /\ RaceFrame

\* records = read_data() in thread t
RaceReadData(t) ==
    /\ threads[t].pc = "read"
    /\ \E o \in ReadOutcomes :
           LET r == read_data(o)
               th == [threads[t] EXCEPT
                         !.records = r.val,
                         !.read_how = r.how,
                         !.seen = remote,
                         !.early = \A u \in Threads : ~threads[u].called]
           IN  IF r.raised THEN Goes(t, ThreadAnswers(th, "crash"))
               ELSE Goes(t, [th EXCEPT !.pc = "handle"])
    /\ UNCHANGED << remote, now >>
    /\ RaceFrame

\* add in thread t: records.append(new_record); write_data(records) up to
\* its first backend call on the object (the journal is not empty)
RaceAddHandle(t) ==
    /\ threads[t].pc = "handle"
    /\ LET th == [threads[t] EXCEPT
                     !.data = threads[t].records \o threads[t].new_record,
                     !.attempt = 0]
       IN  IF TokenMissing THEN Goes(t, ThreadReturns(th, FALSE))
           ELSE Goes(t, [th EXCEPT !.pc = "upload"])
    /\ UNCHANGED << remote, now >>
    /\ RaceFrame

\* upload_with_retry in thread t: y.upload(buf, remote_path, overwrite=True)
RaceUpload(t) ==
    /\ threads[t].pc = "upload"
    /\ \E o \in {"ok", "conflict", "error"} :
           LET th == Calling(threads[t]) IN
           /\ remote' = UploadResult(o, json_dumps(th.data))
           /\ IF o = "ok" THEN Goes(t, ThreadReturns(th, TRUE))
              ELSE IF o = "error" THEN Goes(t, ThreadReturns(th, FALSE))
              ELSE IF th.attempt = max_retries - 1
              THEN Goes(t, [th EXCEPT !.pc = "fb_exists"])
              ELSE Goes(t, [th EXCEPT !.attempt = @ + 1])
    /\ UNCHANGED now
    /\ RaceFrame

\* upload_with_retry in thread t, last conflict: y.exists(remote_path)
RaceFbExists(t) ==
    /\ threads[t].pc = "fb_exists"
    /\ \E o \in {"ok", "error"} :
           LET th == Calling(threads[t]) IN
           IF o = "error" THEN Goes(t, ThreadReturns(th, FALSE))
           ELSE Goes(t, [th EXCEPT !.pc = IF remote.exists THEN "fb_remove"
                                                           ELSE "fb_upload"])
    /\ UNCHANGED << remote, now >>
    /\ RaceFrame

\* upload_with_retry in thread t, last conflict: y.remove(remote_path)
RaceFbRemove(t) ==
    /\ threads[t].pc = "fb_remove"
    /\ \E o \in {"ok", "error"} :
           LET th == Calling(threads[t]) IN
           /\ remote' = RemoveResult(o)
           /\ IF o = "ok" THEN Goes(t, [th EXCEPT !.pc = "fb_upload"])
              ELSE Goes(t, ThreadReturns(th, FALSE))
    /\ UNCHANGED now
    /\ RaceFrame

\* upload_with_retry in thread t, last conflict: y.upload(buf, remote_path)
RaceFbUpload(t) ==
    /\ threads[t].pc = "fb_upload"
    /\ \E o \in PlainUploadOutcomes :
           LET th == Calling(threads[t]) IN
           /\ remote' = UploadResult(o, json_dumps(th.data))
           /\ Goes(t, ThreadReturns(th, o = "ok"))
    /\ UNCHANGED now
    /\ RaceFrame

\* the next step of the handler in thread t, once its request has arrived
ThreadStep(t) ==
    \/ RaceReadData(t)
    \/ RaceAddHandle(t)
    \/ RaceUpload(t)
    \/ RaceFbExists(t)
    \/ RaceFbRemove(t)
    \/ RaceFbUpload(t)

RaceNext ==
    \/ \E t \in Threads, f \in RaceForms : RaceAddPost(t, f)
    \/ \E t \in Threads : RaceReadData(t)
    \/ \E t \in Threads : RaceAddHandle(t)
    \/ \E t \in Threads : RaceUpload(t)
    \/ \E t \in Threads : RaceFbExists(t)
    \/ \E t \in Threads : RaceFbRemove(t)
    \/ \E t \in Threads : RaceFbUpload(t)

RaceSpec == RaceInit /\ [][RaceNext]_vars

(***************************************************************************)
(* Properties.                                                             *)
(***************************************************************************)
\* the remote store holds exactly journal j: no object for the empty journal
RemoteHolds(j) ==
    IF j = <<>> THEN remote = Absent ELSE remote = Present(json_dumps(j))

\* write_data has returned to the handler
WriteDone == pc = "done" /\ wrote

\* C1: write atomicity.  When write_data returns, the remote object holds
\* either the complete new journal or the complete journal it held before
\* the call, and after a return of False it holds the journal it held before.
C1_WriteAtomic ==
    WriteDone =>
        /\ RemoteHolds(data) \/ remote = remote0
        /\ ret = "False" => remote = remote0

\* C2: add appends.  When add passed validation and write_data returned
\* True, the stored journal is the journal stored before the call followed
\* by one record with the id generated for the call, the composed date-time,
\* the remedy and potency of the form and no events, whatever way read_data
\* returned.
C2_AddAppends ==
    (pc = "done" /\ req.op = "add" /\ ret = "True") =>
        Stored(remote) =
            Append(Stored(remote0),
                   [id |-> FormatId(now),
                    date_time |-> ComposeDateTime(parse_date(req.date_raw),
                                                  parse_time(req.time_raw)),
                    remedy |-> req.remedy,
                    potency |-> req.potency,
                    events |-> <<>>])

\* the records of rs whose id is not id, in their order
Others(rs, id) == SelectSeq(rs, LAMBDA r : r.id # id)

\* C3: delete removes only the matching record.  After a delete that reports
\* success the stored journal is the journal stored before the call without
\* the records of that id (so unchanged when there was none), whatever way
\* read_data returned.
C3_DeleteOnlyMatching ==
    (pc = "done" /\ req.op = "delete" /\ result = "success") =>
        Stored(remote) = Others(Stored(remote0), req.record_id)

\* C4 as claimed: with a credential configured, write_data returns True if
\* and only if the remote store holds exactly the journal passed in when it
\* returns.
C4_TrueIffHolds ==
    (WriteDone /\ token) => (ret = "True" <=> RemoteHolds(data))

\* C4, amended: write_data returns True or False and raises nothing; when it
\* returns True the remote store holds exactly the journal passed in (no
\* object for the empty journal); without a credential it returns False.
C4_TrueImpliesHolds ==
    WriteDone =>
        /\ ret \in {"True", "False"}
        /\ ~exc
        /\ ret = "True" => RemoteHolds(data)
        /\ ~token => ret = "False"

\* C4: a write of a non-empty journal that returned True after a conflict
C4_Witness ==
    WriteDone /\ ret = "True" /\ data # <<>> /\ uploads > 1

\* C5: writing an empty journal deletes the remote object.  After
\* write_data([]) returned True there is no remote object, no upload was
\* issued, and read_data returns the empty journal however the backend
\* answers; so it is after the delete of the only record.
C5_EmptyWriteDeletes ==
    (WriteDone /\ data = <<>> /\ ret = "True") =>
        /\ remote = Absent
        /\ uploads = 0
        /\ \A o \in ReadOutcomes : read_data(o).val = <<>>

\* C5: the delete of the only record of the journal has succeeded
C5_Witness ==
    /\ WriteDone /\ req.op = "delete" /\ ret = "True" /\ data = <<>>
    /\ Len(Stored(remote0)) = 1
    /\ Stored(remote0)[1].id = req.record_id

\* C6 as claimed: the read_data that follows a write_data(j) that returned
\* True, with no write in between, returns j.
C6_RoundTrip ==
    (pc = "handle" /\ lastWrite.valid) => records = lastWrite.j

\* C6, amended: the read_data that follows a write_data(j) that returned
\* True, with no write in between, returns j when its backend calls succeed
\* and the empty journal when one of them fails.
C6_RoundTripReadOk ==
    (pc = "handle" /\ lastWrite.valid) =>
        IF read_o = "ok" THEN records = lastWrite.j ELSE records = <<>>

\* C6: a journal of two records, one with an event, is read back
C6_Witness ==
    /\ pc = "handle" /\ lastWrite.valid /\ read_o = "ok"
    /\ Len(records) = 2
    /\ \E i \in 1..2 : records[i].events # <<>>

\* a sequence of records, each a sequence of events
IsJournal(rs) ==
    \A i \in 1..Len(rs) :
        /\ DOMAIN rs[i] = {"id", "date_time", "remedy", "potency", "events"}
        /\ \A k \in 1..Len(rs[i].events) :
               DOMAIN rs[i].events[k] = {"date", "time", "description"}

\* C7: read_data never raises.  It returns a journal however the backend
\* answers, the empty journal when there is no credential, no remote object,
\* an error of exists or download, or malformed JSON; and it leaves the
\* remote object and the local file as they were.
C7_ReadNeverRaises ==
    /\ ~exc
    /\ result # "crash"
    /\ pc = "handle" =>
           /\ IsJournal(records)
           /\ (~token \/ ~remote0.exists \/ read_o # "ok") => records = <<>>
           /\ read_how # "ok" => records = <<>>
           /\ remote = remote0
           /\ localFile = Absent

\* C7: read_data has met malformed JSON in an existing remote object
C7_Witness ==
    pc = "handle" /\ read_o = "garbled" /\ remote.exists /\ records = <<>>

\* the date and time of an add or edit form are accepted
ValidRecordInput ==
    /\ parse_date(req.date_raw) # <<>>
    /\ req.time_raw = <<>> \/ parse_time(req.time_raw) # <<>>

\* C8: a validation failure of add never mutates the store.  When the date
\* fails parse_date (an empty date too), or the time is not empty and fails
\* parse_time, add answers with a rejection, write_data is not called and
\* the stored journal is unchanged.
C8_AddRejectsWithoutWrite ==
    (req.op = "add" /\ req.method = "POST" /\ ~ValidRecordInput) =>
        /\ pc = "done"
        /\ result \in {"bad_date", "bad_time"}
        /\ ~wrote
        /\ ret = "none"
        /\ remote = remote0

\* C8: add has rejected a malformed date while a journal is stored
C8_Witness ==
    /\ req.op = "add" /\ pc = "done" /\ result = "bad_date"
    /\ req.date_raw = DateBad
    /\ remote.exists

\* the journal read_data returned has a record of the id of the url
ReadHasRecord == \E i \in 1..Len(records) : records[i].id = req.record_id

\* C9: edit.  Without a record of the id in the journal read, edit reports
\* not-found and write_data is not called; with one and valid input, the
\* journal written differs from the journal read only in date-time, remedy
\* and potency of that record: its id and events, every other record and
\* the order are as read.  Nothing is written in any other case.
C9_EditFrame ==
    (pc = "done" /\ req.op = "edit") =>
        /\ ~ReadHasRecord => result = "not_found" /\ ~wrote
        /\ wrote <=> (ReadHasRecord /\ req.method = "POST" /\ ValidRecordInput)
        /\ wrote =>
               /\ Len(data) = Len(records)
               /\ \E k \in 1..Len(records) :
                      /\ records[k].id = req.record_id
                      /\ data[k].id = records[k].id
                      /\ data[k].events = records[k].events
                      /\ data[k].date_time =
                             ComposeDateTime(parse_date(req.date_raw),
                                             parse_time(req.time_raw))
                      /\ data[k].remedy = req.remedy
                      /\ data[k].potency = req.potency
                      /\ \A i \in 1..Len(records) :
                             i # k => data[i] = records[i]

\* C9: the record edited has an event and another record stands beside it
C9_Witness ==
    /\ pc = "done" /\ req.op = "edit" /\ wrote
    /\ Len(records) = 2
    /\ \E k \in 1..2 :
           /\ records[k].id = req.record_id
           /\ records[k].events # <<>>
           /\ data[k] # records[k]

\* the description, date or time of an add_event form is refused
EventInputRejected ==
    \/ req.description = <<>>
    \/ req.date_raw # <<>> /\ parse_date(req.date_raw) = <<>>
    \/ req.time_raw # <<>> /\ parse_time(req.time_raw) = <<>>

\* the event an accepted add_event form stands for
ReqEvent ==
    [date |-> parse_date(req.date_raw), time |-> parse_time(req.time_raw),
     description |-> req.description]

\* C10: add_event.  With an empty description, a non-empty date that fails
\* parse_date, a non-empty time that fails parse_time, or no record of the
\* id, write_data is not called and the stored journal is unchanged;
\* otherwise the journal written is the journal read with one event
\* {normalised date, normalised time, description} behind the events of
\* that record: the earlier events keep their index and no other record
\* changes.
C10_AddEventFrame ==
    (pc = "done" /\ req.op = "add_event") =>
        IF EventInputRejected \/ ~ReadHasRecord
        THEN ~wrote /\ remote = remote0
        ELSE /\ wrote
             /\ Len(data) = Len(records)
             /\ \E k \in 1..Len(records) :
                    /\ records[k].id = req.record_id
                    /\ Len(data[k].events) = Len(records[k].events) + 1
                    /\ \A e \in 1..Len(records[k].events) :
                           data[k].events[e] = records[k].events[e]
                    /\ data[k].events[Len(data[k].events)] = ReqEvent
                    /\ [data[k] EXCEPT !.events = <<>>] =
                           [records[k] EXCEPT !.events = <<>>]
                    /\ \A i \in 1..Len(records) :
                           i # k => data[i] = records[i]

\* C10: an event is added to a record that has another event already
C10_Witness ==
    /\ pc = "done" /\ req.op = "add_event" /\ wrote
    /\ \E k \in 1..Len(records) :
           /\ records[k].id = req.record_id
           /\ Len(records[k].events) = 1
           /\ records[k].events[1] # ReqEvent

\* the events of the first record of the id of the url in the journal read
ReadEvents == records[FindRecord(records, req.record_id)].events

\* the index of the url names an event of the record in the journal read
IndexInRange ==
    /\ ReadHasRecord
    /\ req.event_index \in 0..(Len(ReadEvents) - 1)

\* C11: edit_event index bounds.  With an index outside [0, len(events)) of
\* the record in the journal read (negative, equal to or beyond the length)
\* or no record of the id, the request is answered not-found (by the
\* handler, or by the route for a negative index), write_data is not called
\* and the stored journal is unchanged.  write_data is called exactly for a
\* POST with an index in range and accepted input, and the journal written
\* is the journal read with the event at the index replaced by the event of
\* the form: the number and order of the events, the other events, the rest
\* of the record and every other record are as read.
C11_EditEventBounds ==
    (pc = "done" /\ req.op = "edit_event") =>
        /\ ~IndexInRange =>
               /\ result \in {"not_found", "no_route"}
               /\ ~wrote
               /\ remote = remote0
        /\ wrote <=>
               (IndexInRange /\ req.method = "POST" /\ ~EventInputRejected)
        /\ wrote =>
               LET k == FindRecord(records, req.record_id) IN
               /\ Len(data) = Len(records)
               /\ Len(data[k].events) = Len(records[k].events)
               /\ \A e \in 1..Len(records[k].events) :
                      data[k].events[e] =
                          IF e = req.event_index + 1 THEN ReqEvent
                          ELSE records[k].events[e]
               /\ [data[k] EXCEPT !.events = <<>>] =
                      [records[k] EXCEPT !.events = <<>>]
               /\ \A i \in 1..Len(records) : i # k => data[i] = records[i]

\* C11: one of two events of a record is edited and changes
C11_Witness ==
    /\ pc = "done" /\ req.op = "edit_event" /\ wrote
    /\ IndexInRange
    /\ Len(ReadEvents) = 2
    /\ ReadEvents[req.event_index + 1] # ReqEvent

\* C12: delete_event.  With no record of the id in the journal read or an
\* index outside [0, len(events)), write_data is not called and the stored
\* journal is as before the call; otherwise the journal written is the
\* journal read without the event at the index: the events before it keep
\* their index, the events behind it move down by one, the rest of the
\* record and every other record are as read.
C12_DeleteEventFrame ==
    (pc = "done" /\ req.op = "delete_event") =>
        IF ~IndexInRange
        THEN ~wrote /\ ret = "none" /\ remote = remote0
        ELSE LET k == FindRecord(records, req.record_id)
                 n == Len(records[k].events)
             IN  /\ wrote
                 /\ Len(data) = Len(records)
                 /\ Len(data[k].events) = n - 1
                 /\ \A e \in 1..(n - 1) :
                        data[k].events[e] =
                            IF e <= req.event_index
                            THEN records[k].events[e]
                            ELSE records[k].events[e + 1]
                 /\ [data[k] EXCEPT !.events = <<>>] =
                        [records[k] EXCEPT !.events = <<>>]
                 /\ \A i \in 1..Len(records) :
                        i # k => data[i] = records[i]

\* C12: the first of two different events of a record is deleted
C12_Witness ==
    /\ pc = "done" /\ req.op = "delete_event" /\ wrote
    /\ req.event_index = 0
    /\ Len(ReadEvents) = 2
    /\ ReadEvents[1] # ReadEvents[2]
    /\ data[FindRecord(records, req.record_id)].events = << ReadEvents[2] >>

\* C13: unique ids.  No two records of the stored journal have the same id,
\* also when two adds read the same value from the clock.
C13_UniqueIds ==
    LET rs == Stored(remote) IN
    \A i, j \in 1..Len(rs) : i # j => rs[i].id # rs[j].id

\* C14: required fields.  Every record of the stored journal has a non-empty
\* remedy and every event of it a non-empty description, and an add or edit
\* whose form has an empty remedy ends without a call of write_data.
C14_RequiredFields ==
    /\ LET rs == Stored(remote) IN
       \A i \in 1..Len(rs) :
           /\ rs[i].remedy # <<>>
           /\ \A e \in 1..Len(rs[i].events) :
                  rs[i].events[e].description # <<>>
    /\ (req.op \in {"add", "edit"} /\ req.method = "POST"
            /\ req.remedy = <<>>) => ~wrote

\* YYYY-MM-DD, the digits 0-9
IsIsoDate(s) ==
    /\ Len(s) = 10
    /\ \A i \in {1, 2, 3, 4, 6, 7, 9, 10} : s[i] \in AsciiDigits
    /\ s[5] = "-" /\ s[8] = "-"

\* HH:MM of five characters, HH 00-23 and MM 00-59
IsClockTime(s) == Len(s) = 5 /\ validate_time(s)

\* YYYY-MM-DD or YYYY-MM-DD HH:MM
IsDateTime(s) ==
    \/ IsIsoDate(s)
    \/ /\ Len(s) = 16
       /\ IsIsoDate(SubSeq(s, 1, 10))
       /\ s[11] = " "
       /\ IsClockTime(SubSeq(s, 12, 16))

\* C15: canonical date and time.  Every record of the stored journal has a
\* date-time of the form YYYY-MM-DD or YYYY-MM-DD HH:MM, and every event of
\* it a date that is empty or YYYY-MM-DD and a time that is empty or HH:MM
\* accepted by validate_time, whatever the raw inputs were.
C15_CanonicalDateTime ==
    LET rs == Stored(remote) IN
    \A i \in 1..Len(rs) :
        /\ IsDateTime(rs[i].date_time)
        /\ \A e \in 1..Len(rs[i].events) :
               /\ rs[i].events[e].date = <<>>
                      \/ IsIsoDate(rs[i].events[e].date)
               /\ rs[i].events[e].time = <<>>
                      \/ IsClockTime(rs[i].events[e].time)

\* the ways to arrange n records: p[i] is the place in the journal read of
\* the record shown at place i
Arrangements(n) ==
    { p \in [1..n -> 1..n] : \A i, j \in 1..n : i # j => p[i] # p[j] }

DigitsAt(s, ps) == \A i \in ps : s[i] \in AsciiDigits

\* DD.MM.YYYY
ShapeDots(s) ==
    Len(s) = 10 /\ DigitsAt(s, {1, 2, 4, 5, 7, 8, 9, 10})
        /\ s[3] = "." /\ s[6] = "."

\* YYYY-MM-DD
ShapeIso(s) ==
    Len(s) = 10 /\ DigitsAt(s, {1, 2, 3, 4, 6, 7, 9, 10})
        /\ s[5] = "-" /\ s[8] = "-"

\* DDMMYYYY
ShapeEightDigits(s) == Len(s) = 8 /\ DigitsAt(s, 1..8)

\* the date the three shapes stand for, <<>> for any other string
ClaimedDate(s) ==
    IF ShapeDots(s)
    THEN << s[7], s[8], s[9], s[10], "-", s[4], s[5], "-", s[1], s[2] >>
    ELSE IF ShapeIso(s) THEN s
    ELSE IF ShapeEightDigits(s)
    THEN << s[5], s[6], s[7], s[8], "-", s[3], s[4], "-", s[1], s[2] >>
    ELSE <<>>

\* C17: parse_date accepts exactly the strings of the shapes DD.MM.YYYY,
\* YYYY-MM-DD and DDMMYYYY, made of digits and the separators only, and
\* returns YYYY-MM-DD with the same day, month and year digits without a
\* range check; every other string is rejected (the empty result).
C17_ParseDateShapes ==
    out.fn = "parse_date" => out.val = ClaimedDate(arg_str)

\* the number a digit 0-9 stands for
DigitVal(c) == CHOOSE d \in 0..9 : DigitChar(d) = c

\* the number the digits of s at the places from..to stand for
RECURSIVE NumberAt(_, _, _)
NumberAt(s, from, to) ==
    IF to < from THEN 0
    ELSE 10 * NumberAt(s, from, to - 1) + DigitVal(s[to])

\* H:MM or HH:MM, hour 0-23 and minute 00-59
ShapeColon(s) ==
    /\ Len(s) \in {4, 5}
    /\ s[Len(s) - 2] = ":"
    /\ DigitsAt(s, (1..Len(s)) \ {Len(s) - 2})
    /\ NumberAt(s, 1, Len(s) - 3) <= 23
    /\ NumberAt(s, Len(s) - 1, Len(s)) <= 59

\* HHMM, hour 00-23 and minute 00-59
ShapeFourDigits(s) ==
    /\ Len(s) = 4
    /\ DigitsAt(s, 1..4)
    /\ NumberAt(s, 1, 2) <= 23
    /\ NumberAt(s, 3, 4) <= 59

\* hour h and minute m as HH:MM
ClockTime(h, m) ==
    << DigitChar(h \div 10), DigitChar(h % 10), ":",
       DigitChar(m \div 10), DigitChar(m % 10) >>

\* the time the shapes stand for, <<>> for any other string
ClaimedTime(s) ==
    IF ShapeColon(s)
    THEN ClockTime(NumberAt(s, 1, Len(s) - 3),
                   NumberAt(s, Len(s) - 1, Len(s)))
    ELSE IF ShapeFourDigits(s)
    THEN ClockTime(NumberAt(s, 1, 2), NumberAt(s, 3, 4))
    ELSE <<>>

\* C18 as claimed: parse_time accepts exactly the strings H:MM, HH:MM and
\* HHMM with hour 0-23 and minute 00-59 and returns HH:MM of the same hour
\* and minute; every other string is rejected; validate_time accepts every
\* result.
C18_ParseTimeShapes ==
    out.fn = "parse_time" =>
        /\ out.val = ClaimedTime(arg_str)
        /\ out.valid # "False"

\* C18, amended: parse_time removes the whitespace around its input and
\* then accepts exactly H:MM, HH:MM and HHMM with hour 0-23 and minute
\* 00-59, returning HH:MM of the same hour and minute; every other string
\* is rejected; validate_time accepts every result.
C18_ParseTimeStripped ==
    out.fn = "parse_time" =>
        /\ out.val = ClaimedTime(Strip(arg_str))
        /\ out.valid # "False"

\* C18: a time of a one-digit hour with whitespace around it is accepted,
\* padded, and passes validate_time
C18_Witness ==
    /\ out.fn = "parse_time"
    /\ arg_str = <<" ", "9", ":", "0", "5", "\n">>
    /\ out.val = <<"0", "9", ":", "0", "5">>
    /\ out.valid = "True"

\* s is empty or made of whitespace only
WhitespaceOnly(s) == \A i \in 1..Len(s) : s[i] \in Whitespace

\* non-empty strings that are neither a date nor a time of the accepted
\* shapes: 2024-9-15, 9:5, 905, 24:05
MalformedInputs ==
    { <<"2", "0", "2", "4", "-", "9", "-", "1", "5">>,
      <<"9", ":", "5">>,
      <<"9", "0", "5">>,
      <<"2", "4", ":", "0", "5">> }

\* C19 as claimed: the result of parse_date and parse_time for an empty or
\* whitespace-only string differs from their result for a non-empty
\* malformed string.
C19_EmptyDistinct ==
    /\ (out.fn = "parse_date" /\ WhitespaceOnly(arg_str)) =>
           \A m \in MalformedInputs : out.val # parse_date(m)
    /\ (out.fn = "parse_time" /\ WhitespaceOnly(arg_str)) =>
           \A m \in MalformedInputs : out.val # parse_time(m)

\* C19, amended: parse_date and parse_time return the empty string for an
\* empty or whitespace-only string, and the empty string as well for a
\* non-empty malformed string: the result does not tell the two apart.
C19_EmptyAsInvalid ==
    (out.fn \in {"parse_date", "parse_time"}
         /\ (WhitespaceOnly(arg_str) \/ arg_str \in MalformedInputs)) =>
        out.val = <<>>

\* C19: parse_date has been called with whitespace only
C19_Witness ==
    /\ out.fn = "parse_date"
    /\ arg_str = <<" ", "\n">>
    /\ out.val = <<>>

\* upload_with_retry is running or has run for the request
InUploadWithRetry == wrote /\ token /\ data # <<>>

\* the places of the log of the calls of kind f
CallsOf(f) == { i \in 1..Len(calls) : calls[i].f = f }

\* the calls of upload_with_retry so far keep to its policy
RetryPolicy ==
    /\ Cardinality(CallsOf("upload_overwrite")) <= 3
    /\ Cardinality(CallsOf("upload")) <= 1
    /\ Cardinality(CallsOf("remove")) <= 1
    \* a call follows an overwrite upload only after a conflict
    /\ \A i \in CallsOf("upload_overwrite") :
           i < Len(calls) => calls[i].o = "conflict"
    \* the exists/remove/upload of the last resort come only behind three
    \* overwrite uploads that were all rejected with a conflict
    /\ \A i \in 1..Len(calls) :
           calls[i].f # "upload_overwrite" =>
               /\ i > 3
               /\ \A k \in 1..3 :
                      calls[k] = Call("upload_overwrite", "conflict")
    \* the removal follows the test for existence, the upload follows either
    /\ \A i \in CallsOf("remove") : calls[i - 1] = Call("exists", "ok")
    /\ \A i \in CallsOf("upload") :
           calls[i - 1] \in {Call("exists", "ok"), Call("remove", "ok")}
    \* a call that failed otherwise than by a conflict of an overwrite
    \* upload is the last call
    /\ \A i \in 1..Len(calls) :
           (calls[i].o = "error" \/ calls[i] = Call("upload", "conflict"))
               => i = Len(calls)

\* what write_data returns after upload_with_retry
RetryResult ==
    pc = "done" =>
        /\ calls # <<>>
        /\ ret = "True" <=>
               calls[Len(calls)] \in { Call("upload_overwrite", "ok"),
                                       Call("upload", "ok") }
        /\ ret \in {"True", "False"}

\* a call of write_data is running
WritePending ==
    pc \in {"wd_exists", "wd_remove", "upload", "fb_exists", "fb_remove",
            "fb_upload"}

\* C20: bounded conflict retry.  However the backend answers,
\* upload_with_retry issues at most three overwrite uploads and repeats one
\* only after a conflict; only after the third conflict it tests for the
\* object, removes it if it exists and issues one upload without overwrite;
\* write_data returns True exactly when an upload succeeded, so False when
\* the removal or the last upload fails, and a failure other than a
\* conflict ends the write at once with False; and every write that has
\* started returns.
C20_BoundedRetry ==
    /\ [](InUploadWithRetry => (RetryPolicy /\ RetryResult))
    /\ (WritePending ~> pc = "done")

\* C20: three conflicts, the object removed, the last upload succeeds
C20_Witness ==
    /\ pc = "done" /\ InUploadWithRetry /\ ret = "True"
    /\ calls = << Call("upload_overwrite", "conflict"),
                  Call("upload_overwrite", "conflict"),
                  Call("upload_overwrite", "conflict"),
                  Call("exists", "ok"),
                  Call("remove", "ok"),
                  Call("upload", "ok") >>

(***************************************************************************)
(* Two handlers side by side.                                              *)
(***************************************************************************)
\* the thread that is not t
OtherThread(t) == CHOOSE u \in Threads : u # t

\* both adds called read_data before either had issued a backend call of
\* its write_data, and both flashed success
BothReadEarlyAndSucceeded ==
    \A t \in Threads :
        /\ threads[t].pc = "done"
        /\ threads[t].result = "success"
        /\ threads[t].early

\* no step of a handler waits for the other thread: once its request has
\* arrived, the next step of a thread can be taken whatever the other does
NoStepWaits ==
    \A t \in Threads :
        threads[t].pc \notin {"idle", "done"} => ENABLED ThreadStep(t)

\* the stored journal is what one of the two threads wrote: what that
\* thread read from the object both saw (or nothing, when its read failed)
\* and its own record behind it
OnlyOneSurvives ==
    \E t \in Threads :
        /\ threads[t].seen = threads[OtherThread(t)].seen
        /\ threads[t].records \in {Stored(threads[t].seen), <<>>}
        /\ remote.exists
        /\ Stored(remote) = threads[t].records \o threads[t].new_record
        /\ Len(Stored(remote)) <= Len(Stored(threads[t].seen)) + 1

\* C21: two adds whose read_data and write_data steps interleave, both
\* reading before either writes, can both report success while the journal
\* stored in the end holds the record of only one of them: whenever both
\* have read early and succeeded, the stored journal is the journal of one
\* thread alone, and no step of a handler waits for the other thread.
C21_LostUpdate ==
    /\ NoStepWaits
    /\ BothReadEarlyAndSucceeded => OnlyOneSurvives

\* both adds read the stored journal, both flashed success, their records
\* differ, and the record of one of them is not in the stored journal
C21_Witness ==
    /\ BothReadEarlyAndSucceeded
    /\ \A t \in Threads : threads[t].read_how = "ok"
    /\ threads[1].new_record # threads[2].new_record
    /\ \E t \in Threads :
           /\ Len(Stored(remote)) = Len(Stored(threads[t].seen)) + 1
           /\ \A i \in 1..Len(Stored(remote)) :
                  Stored(remote)[i] # threads[t].new_record[1]

=============================================================================
